---------------------------- MODULE Spec2Model ----------------------------
(***************************************************************************)
(* State-machine model of poezio's data-forms tab (src/src/data_forms.py): *)
(* DataFormsTab, FormWin and the FieldInput widget family.                 *)
(*                                                                         *)
(* Python values are tagged records so that values of different Python     *)
(* types can be compared:                                                  *)
(*    None -> [none |-> TRUE]      bool -> [b |-> ...]                     *)
(*    str  -> [s |-> <<tokens>>]   list -> [l |-> <<values>>]              *)
(* A str is a sequence of tokens (a token stands for one or more           *)
(* characters), '' is [s |-> <<>>].                                        *)
(***************************************************************************)
EXTENDS Integers, Sequences, FiniteSets, TLC

VARIABLES
    form,           \* DataFormsTab._form: its 'title' and 'instructions'
    fields,         \* the fields of _form, in order (the Field objects)
    inputs,         \* FormWin.inputs: list of {'label','instructions','input'}
    current_input,  \* FormWin.current_input
    err,            \* exception that propagated out of a handler ("none" if
                    \* none did); it ends the session: no handler runs after it
    cancelCalls,    \* number of times self._on_cancel(self._form) was called
    sendCalls,      \* number of times self._on_send(self._form) was called
    lastOp,         \* the handler that ran last
    supplied,       \* the field set as the caller supplied it to the session
    spaceParity,    \* per input, per option: odd number of ' ' keys received
                    \* while the cursor of that input was on that option
    sendTrace       \* the calls the last on_send made, in the order made

vars == <<form, fields, inputs, current_input, err, cancelCalls, sendCalls,
          lastOp, supplied, spaceParity, sendTrace>>

----------------------------------------------------------------------------
(* Bounds of the model *)

MaxFields == 3
MaxMixed == 2
MaxNavFields == 4
MaxOptions == 3
MaxText == 1
MaxCalls == 2

----------------------------------------------------------------------------
(* Python values *)

PyNone == [none |-> TRUE]
PyBool(x) == [b |-> x]
PyStr(x) == [s |-> x]
PyList(x) == [l |-> x]

IsStr(v) == DOMAIN v = {"s"}

\* bool(v)
PyTruth(v) ==
    IF DOMAIN v = {"b"} THEN v.b
    ELSE IF DOMAIN v = {"s"} THEN Len(v.s) > 0
    ELSE IF DOMAIN v = {"l"} THEN Len(v.l) > 0
    ELSE FALSE

\* x in v, for a list v
PyIn(x, v) == \E k \in 1..Len(v.l) : v.l[k] = x

UNFOCUSED == 14
FOCUSED == 13

----------------------------------------------------------------------------
(* FormWin.input_classes *)

RecognizedTypes == {"boolean", "fixed", "jid-single", "list-multi",
                    "list-single", "text-private", "text-single"}

input_classes(type) ==
    CASE type = "boolean" -> "BooleanWin"
      [] type = "fixed" -> "DummyInput"
      [] type = "jid-single" -> "TextSingleWin"
      [] type = "list-multi" -> "ListMultiWin"
      [] type = "list-single" -> "ListSingleWin"
      [] type = "text-private" -> "TextPrivateWin"
      [] type = "text-single" -> "TextSingleWin"
      [] OTHER -> "KeyError"

----------------------------------------------------------------------------
(* Widget constructors.  f is the index of the Field in fields (the        *)
(* reference self._field), fld the Field as it is when the widget is built *)

DummyInput_init(f, fld) ==
    [cls |-> "DummyInput", field |-> f, color |-> UNFOCUSED]

BooleanWin_init(f, fld) ==
    [cls |-> "BooleanWin", field |-> f, color |-> UNFOCUSED,
     last_key |-> "KEY_RIGHT", value |-> PyTruth(fld.value)]

ListMultiWin_init(f, fld) ==
    [cls |-> "ListMultiWin", field |-> f, color |-> UNFOCUSED,
     options |-> [k \in 1..Len(fld.options) |->
                    [option |-> fld.options[k],
                     selected |-> PyIn(fld.options[k].value, fld.value)]],
     val_pos |-> 0]

\* the loop has no break: the last matching option wins
RECURSIVE ListSingleScan(_, _, _, _)
ListSingleScan(opts, value, i, val_pos) ==
    IF i >= Len(opts) THEN val_pos
    ELSE ListSingleScan(opts, value, i + 1,
                        IF value = opts[i + 1].value THEN i ELSE val_pos)

ListSingleWin_init(f, fld) ==
    [cls |-> "ListSingleWin", field |-> f, color |-> UNFOCUSED,
     options |-> fld.options,
     val_pos |-> ListSingleScan(fld.options, fld.value, 0, 0)]

TextSingleWin_init(cls, f, fld) ==
    LET text == IF IsStr(fld.value) THEN fld.value.s ELSE <<>>
    IN [cls |-> cls, field |-> f, color |-> UNFOCUSED,
        text |-> text, pos |-> Len(text)]

NewInput(cls, f, fld) ==
    CASE cls = "DummyInput" -> DummyInput_init(f, fld)
      [] cls = "BooleanWin" -> BooleanWin_init(f, fld)
      [] cls = "ListMultiWin" -> ListMultiWin_init(f, fld)
      [] cls = "ListSingleWin" -> ListSingleWin_init(f, fld)
      [] OTHER -> TextSingleWin_init(cls, f, fld)

is_dummy(w) == w.cls = "DummyInput"

----------------------------------------------------------------------------
(* FormWin.__init__ *)

\* faulty variant of FieldAfterInit: the fallback without
\* field.setValue(field['type'])
FieldAfterInit_NoSetValue(fld) == fld

\* the except branch: field.setValue(field['type'])
FieldAfterInit(fld) ==
    IF fld.type # "hidden" /\ input_classes(fld.type) = "KeyError"
    THEN [fld EXCEPT !.value = PyStr(<<fld.type>>)]
    ELSE fld

FieldsAfterInit(flds) == [k \in 1..Len(flds) |-> FieldAfterInit(flds[k])]

InputFor(f, fld0) ==
    LET fld == FieldAfterInit(fld0)
        cls == IF input_classes(fld.type) = "KeyError" THEN "TextSingleWin"
               ELSE input_classes(fld.type)
    IN [label |-> IF fld.type = "fixed" THEN fld.value ELSE fld.label,
        instructions |-> fld.instructions,
        input |-> NewInput(cls, f, fld)]

\* faulty variant of FormWin_inputs: hidden fields are not skipped
RECURSIVE FormWin_inputs_KeepHidden(_, _)
FormWin_inputs_KeepHidden(flds, f) ==
    IF f > Len(flds) THEN <<>>
    ELSE <<InputFor(f, flds[f])>> \o FormWin_inputs_KeepHidden(flds, f + 1)

RECURSIVE FormWin_inputs(_, _)
FormWin_inputs(flds, f) ==
    IF f > Len(flds) THEN <<>>
    ELSE IF flds[f].type = "hidden" THEN FormWin_inputs(flds, f + 1)
    ELSE <<InputFor(f, flds[f])>> \o FormWin_inputs(flds, f + 1)

----------------------------------------------------------------------------
(* The field sets a session is built from *)

A == PyStr(<<"A">>)
B == PyStr(<<"B">>)
C == PyStr(<<"C">>)
Z == PyStr(<<"Z">>)
Hello == PyStr(<<"hello">>)
Lab == PyStr(<<"label">>)
Empty == PyStr(<<>>)

Field(type, value, options) ==
    [type |-> type, value |-> value, label |-> Lab,
     instructions |-> Empty, options |-> options]

Option(v) == [value |-> v, label |-> v]

SeqsUpTo(S, lo, hi) == UNION {[1..n -> S] : n \in lo..hi}

FormTop == [title |-> PyStr(<<"title">>), instructions |-> PyStr(<<"instr">>)]

InitWith(flds) ==
    /\ supplied = flds
    /\ form = FormTop
    /\ fields = FieldsAfterInit(flds)
    /\ inputs = FormWin_inputs(flds, 1)
    /\ current_input = 0
    /\ err = "none"
    /\ cancelCalls = 0
    /\ sendCalls = 0
    /\ sendTrace = <<>>
    /\ lastOp = "init"
    /\ spaceParity = [i \in 1..Len(FormWin_inputs(flds, 1)) |->
            IF FormWin_inputs(flds, 1)[i].input.cls = "ListMultiWin"
            THEN [k \in 1..Len(FormWin_inputs(flds, 1)[i].input.options) |-> FALSE]
            ELSE <<>>]

----------------------------------------------------------------------------
(* Widget operations *)

\* refresh(): the list widgets read self.options[self.val_pos]
refresh_raises(w) ==
    w.cls \in {"ListMultiWin", "ListSingleWin"} /\ Len(w.options) = 0

\* FieldInput.set_color: the colour is stored before refresh() runs
set_color(inp, i, color) ==
    [inp EXCEPT ![i + 1].input.color = color]

DummyInput_do_command(w, key) ==
    \* do_command(self) takes no key: the call do_command(key) raises
    [w |-> w, err |-> "TypeError"]

BooleanWin_do_command(w, key) ==
    IF key = "KEY_LEFT" \/ key = "KEY_RIGHT"
    THEN [w |-> [w EXCEPT !.value = ~w.value, !.last_key = key], err |-> "none"]
    ELSE [w |-> w, err |-> "none"]

\* faulty variant of ListMultiWin_do_command: ' ' toggles the first option,
\* wherever the cursor is
ListMultiWin_do_command_ToggleFirst(w, key) ==
    IF key = "KEY_LEFT"
    THEN [w |-> IF w.val_pos > 0 THEN [w EXCEPT !.val_pos = w.val_pos - 1] ELSE w,
          err |-> "none"]
    ELSE IF key = "KEY_RIGHT"
    THEN [w |-> IF w.val_pos < Len(w.options) - 1
                THEN [w EXCEPT !.val_pos = w.val_pos + 1] ELSE w,
          err |-> "none"]
    ELSE IF key = " " /\ Len(w.options) > 0
    THEN [w |-> [w EXCEPT !.options[1].selected = ~w.options[1].selected],
          err |-> "none"]
    ELSE [w |-> w, err |-> "none"]

ListMultiWin_do_command(w, key) ==
    IF key = "KEY_LEFT"
    THEN [w |-> IF w.val_pos > 0 THEN [w EXCEPT !.val_pos = w.val_pos - 1] ELSE w,
          err |-> IF refresh_raises(w) THEN "IndexError" ELSE "none"]
    ELSE IF key = "KEY_RIGHT"
    THEN [w |-> IF w.val_pos < Len(w.options) - 1
                THEN [w EXCEPT !.val_pos = w.val_pos + 1] ELSE w,
          err |-> IF refresh_raises(w) THEN "IndexError" ELSE "none"]
    ELSE IF key = " "
    THEN IF w.val_pos >= Len(w.options)
         THEN [w |-> w, err |-> "IndexError"]
         ELSE [w |-> [w EXCEPT !.options[w.val_pos + 1].selected =
                                    ~w.options[w.val_pos + 1].selected],
               err |-> "none"]
    ELSE [w |-> w, err |-> "none"]

\* faulty variant of ListSingleWin_do_command: KEY_RIGHT on the last option
\* wraps to the first
ListSingleWin_do_command_Wrap(w, key) ==
    IF key = "KEY_LEFT"
    THEN [w |-> IF w.val_pos > 0 THEN [w EXCEPT !.val_pos = w.val_pos - 1] ELSE w,
          err |-> IF refresh_raises(w) THEN "IndexError" ELSE "none"]
    ELSE IF key = "KEY_RIGHT"
    THEN [w |-> IF w.val_pos < Len(w.options) - 1
                THEN [w EXCEPT !.val_pos = w.val_pos + 1]
                ELSE [w EXCEPT !.val_pos = 0],
          err |-> IF refresh_raises(w) THEN "IndexError" ELSE "none"]
    ELSE [w |-> w, err |-> "none"]

ListSingleWin_do_command(w, key) ==
    IF key = "KEY_LEFT"
    THEN [w |-> IF w.val_pos > 0 THEN [w EXCEPT !.val_pos = w.val_pos - 1] ELSE w,
          err |-> IF refresh_raises(w) THEN "IndexError" ELSE "none"]
    ELSE IF key = "KEY_RIGHT"
    THEN [w |-> IF w.val_pos < Len(w.options) - 1
                THEN [w EXCEPT !.val_pos = w.val_pos + 1] ELSE w,
          err |-> IF refresh_raises(w) THEN "IndexError" ELSE "none"]
    ELSE [w |-> w, err |-> "none"]

\* windows.Input.do_command, the single-line editing primitive that
\* TextSingleWin and TextPrivateWin inherit
Input_do_command(w, key) ==
    IF key = "KEY_LEFT"
    THEN [w |-> IF w.pos > 0 THEN [w EXCEPT !.pos = w.pos - 1] ELSE w, err |-> "none"]
    ELSE IF key = "KEY_RIGHT"
    THEN [w |-> IF w.pos < Len(w.text) THEN [w EXCEPT !.pos = w.pos + 1] ELSE w,
          err |-> "none"]
    ELSE IF key = "KEY_BACKSPACE"
    THEN [w |-> IF w.pos > 0
                THEN [w EXCEPT !.text = SubSeq(w.text, 1, w.pos - 1)
                                        \o SubSeq(w.text, w.pos + 1, Len(w.text)),
                               !.pos = w.pos - 1]
                ELSE w,
          err |-> "none"]
    ELSE [w |-> [w EXCEPT !.text = SubSeq(w.text, 1, w.pos) \o <<key>>
                                    \o SubSeq(w.text, w.pos + 1, Len(w.text)),
                          !.pos = w.pos + 1],
          err |-> "none"]

\* windows.Input.get_text
get_text(w) == PyStr(w.text)

do_command(w, key) ==
    CASE w.cls = "DummyInput" -> DummyInput_do_command(w, key)
      [] w.cls = "BooleanWin" -> BooleanWin_do_command(w, key)
      [] w.cls = "ListMultiWin" -> ListMultiWin_do_command(w, key)
      [] w.cls = "ListSingleWin" -> ListSingleWin_do_command(w, key)
      [] OTHER -> Input_do_command(w, key)

\* the values of the selected options, in option order
RECURSIVE SelectedValues(_)
SelectedValues(opts) ==
    IF opts = <<>> THEN <<>>
    ELSE (IF Head(opts).selected THEN <<Head(opts).option.value>> ELSE <<>>)
         \o SelectedValues(Tail(opts))

BooleanWin_reply(w, fld) ==
    [fld |-> [fld EXCEPT !.label = Empty, !.value = PyBool(w.value)],
     err |-> "none"]

ListMultiWin_reply(w, fld) ==
    [fld |-> [fld EXCEPT !.label = Empty, !.options = <<>>,
                         !.value = PyList(SelectedValues(w.options))],
     err |-> "none"]

\* faulty variant of ListSingleWin_reply: the answer is the first option,
\* wherever the cursor is
ListSingleWin_reply_FirstOption(w, fld) ==
    IF Len(w.options) = 0
    THEN [fld |-> [fld EXCEPT !.label = Empty, !.options = <<>>],
          err |-> "IndexError"]
    ELSE [fld |-> [fld EXCEPT !.label = Empty, !.options = <<>>,
                              !.value = w.options[1].value],
          err |-> "none"]

ListSingleWin_reply(w, fld) ==
    IF w.val_pos >= Len(w.options)
    THEN [fld |-> [fld EXCEPT !.label = Empty, !.options = <<>>],
          err |-> "IndexError"]
    ELSE [fld |-> [fld EXCEPT !.label = Empty, !.options = <<>>,
                              !.value = w.options[w.val_pos + 1].value],
          err |-> "none"]

TextSingleWin_reply(w, fld) ==
    [fld |-> [fld EXCEPT !.label = Empty, !.value = get_text(w)],
     err |-> "none"]

\* w.reply(), for a widget that is not a DummyInput
reply(w, fld) ==
    CASE w.cls = "BooleanWin" -> BooleanWin_reply(w, fld)
      [] w.cls = "ListMultiWin" -> ListMultiWin_reply(w, fld)
      [] w.cls = "ListSingleWin" -> ListSingleWin_reply(w, fld)
      [] OTHER -> TextSingleWin_reply(w, fld)

\* the loop of FormWin.reply from input i on; stops at the first exception
\* one call made by on_send: the reply() of inputs[input], or a step that
\* concerns no input (input = -1)
Call(name, input) == [call |-> name, input |-> input]

\* the for loop of FormWin.reply: the fields after the replies, the
\* exception that stopped the loop, and the reply() calls made, in order
RECURSIVE FormWin_reply_loop(_, _, _)
FormWin_reply_loop(inp, flds, i) ==
    IF i >= Len(inp) THEN [fields |-> flds, err |-> "none", calls |-> <<>>]
    ELSE LET w == inp[i + 1].input
         IN IF is_dummy(w) THEN FormWin_reply_loop(inp, flds, i + 1)
            ELSE LET r == reply(w, flds[w.field])
                     flds1 == [flds EXCEPT ![w.field] = r.fld]
                     c == Call("reply", i)
                 IN IF r.err # "none"
                    THEN [fields |-> flds1, err |-> r.err, calls |-> <<c>>]
                    ELSE LET rest == FormWin_reply_loop(inp, flds1, i + 1)
                         IN [rest EXCEPT !.calls = <<c>> \o rest.calls]

\* faulty variant of FormWin_reply: title and instructions are not cleared
FormWin_reply_KeepTitle(inp, flds, frm) ==
    LET r == FormWin_reply_loop(inp, flds, 0)
    IN [fields |-> r.fields, form |-> frm, err |-> r.err,
        calls |-> r.calls]

\* faulty variant of FormWin_reply: title and instructions are cleared
\* before the inputs reply
FormWin_reply_ClearFirst(inp, flds, frm) ==
    LET r == FormWin_reply_loop(inp, flds, 0)
    IN [fields |-> r.fields,
        form |-> [frm EXCEPT !.title = Empty, !.instructions = Empty],
        err |-> r.err,
        calls |-> <<Call("title", -1), Call("instructions", -1)>> \o r.calls]

FormWin_reply(inp, flds, frm) ==
    LET r == FormWin_reply_loop(inp, flds, 0)
    IN [fields |-> r.fields,
        form |-> IF r.err = "none"
                 THEN [frm EXCEPT !.title = Empty, !.instructions = Empty]
                 ELSE frm,
        err |-> r.err,
        calls |-> IF r.err = "none"
                  THEN r.calls \o <<Call("title", -1), Call("instructions", -1)>>
                  ELSE r.calls]

----------------------------------------------------------------------------
(* FormWin navigation *)

\* faulty variant of NextJump: the scan never skips a dummy
NextJump_NoSkip(inp, cur, jump) == jump

\* the while loop of go_to_next_input; cur is the incremented current_input
RECURSIVE NextJump(_, _, _)
NextJump(inp, cur, jump) ==
    IF cur + jump # Len(inp) - 1 /\ is_dummy(inp[cur + jump + 1].input)
    THEN NextJump(inp, cur, jump + 1)
    ELSE jump

\* the while loop of go_to_previous_input; cur is the decremented
\* current_input.  The loop reads inputs[cur+jump]: past the end of the
\* list the read raises IndexError
RECURSIVE PrevJump(_, _, _)
PrevJump(inp, cur, jump) ==
    IF cur - jump > 0
    THEN IF cur + jump >= Len(inp) THEN [jump |-> jump, err |-> "IndexError"]
         ELSE IF is_dummy(inp[cur + jump + 1].input)
              THEN PrevJump(inp, cur, jump + 1)
              ELSE [jump |-> jump, err |-> "none"]
    ELSE [jump |-> jump, err |-> "none"]

\* faulty variant of NextInput: the input that loses the focus keeps its
\* colour
NextInput_KeepOldColour(inp, cur) ==
    IF Len(inp) = 0 THEN [inputs |-> inp, cur |-> cur, err |-> "none"]
    ELSE IF cur = Len(inp) - 1 THEN [inputs |-> inp, cur |-> cur, err |-> "none"]
    ELSE IF refresh_raises(inp[cur + 1].input)
    THEN [inputs |-> inp, cur |-> cur, err |-> "IndexError"]
    ELSE LET cur1 == cur + 1
             jump == NextJump(inp, cur1, 0)
         IN IF is_dummy(inp[cur1 + jump + 1].input)
            THEN [inputs |-> inp, cur |-> cur1, err |-> "none"]
            ELSE [inputs |-> set_color(inp, cur1 + jump, FOCUSED),
                  cur |-> cur1 + jump,
                  err |-> IF refresh_raises(inp[cur1 + jump + 1].input)
                          THEN "IndexError" ELSE "none"]

\* result of go_to_next_input on (inp, cur): the new inputs, current_input
\* and the exception raised, if any
NextInput(inp, cur) ==
    IF Len(inp) = 0 THEN [inputs |-> inp, cur |-> cur, err |-> "none"]
    ELSE IF cur = Len(inp) - 1 THEN [inputs |-> inp, cur |-> cur, err |-> "none"]
    ELSE LET inp1 == set_color(inp, cur, UNFOCUSED)
         IN IF refresh_raises(inp[cur + 1].input)
            THEN [inputs |-> inp1, cur |-> cur, err |-> "IndexError"]
            ELSE LET cur1 == cur + 1
                     jump == NextJump(inp1, cur1, 0)
                 IN IF is_dummy(inp1[cur1 + jump + 1].input)
                    THEN [inputs |-> inp1, cur |-> cur1, err |-> "none"]
                    ELSE [inputs |-> set_color(inp1, cur1 + jump, FOCUSED),
                          cur |-> cur1 + jump,
                          err |-> IF refresh_raises(inp1[cur1 + jump + 1].input)
                                  THEN "IndexError" ELSE "none"]

PreviousInput(inp, cur) ==
    IF Len(inp) = 0 THEN [inputs |-> inp, cur |-> cur, err |-> "none"]
    ELSE IF cur = 0 THEN [inputs |-> inp, cur |-> cur, err |-> "none"]
    ELSE LET inp1 == set_color(inp, cur, UNFOCUSED)
         IN IF refresh_raises(inp[cur + 1].input)
            THEN [inputs |-> inp1, cur |-> cur, err |-> "IndexError"]
            ELSE LET cur1 == cur - 1
                     j == PrevJump(inp1, cur1, 0)
                 IN IF j.err # "none"
                    THEN [inputs |-> inp1, cur |-> cur1, err |-> j.err]
                    ELSE IF cur1 + j.jump >= Len(inp1)
                    THEN [inputs |-> inp1, cur |-> cur1, err |-> "IndexError"]
                    ELSE IF is_dummy(inp1[cur1 + j.jump + 1].input)
                    THEN [inputs |-> inp1, cur |-> cur1, err |-> "none"]
                    ELSE [inputs |-> set_color(inp1, cur1 - j.jump, FOCUSED),
                          cur |-> cur1 - j.jump,
                          err |-> IF refresh_raises(inp1[cur1 - j.jump + 1].input)
                                  THEN "IndexError" ELSE "none"]

go_to_next_input ==
    /\ err = "none"
    /\ LET r == NextInput(inputs, current_input)
       IN /\ inputs' = r.inputs
          /\ current_input' = r.cur
          /\ err' = r.err
    /\ lastOp' = "go_to_next_input"
    /\ UNCHANGED <<form, fields, cancelCalls, sendCalls, supplied, spaceParity,
                 sendTrace>>

go_to_previous_input ==
    /\ err = "none"
    /\ LET r == PreviousInput(inputs, current_input)
       IN /\ inputs' = r.inputs
          /\ current_input' = r.cur
          /\ err' = r.err
    /\ lastOp' = "go_to_previous_input"
    /\ UNCHANGED <<form, fields, cancelCalls, sendCalls, supplied, spaceParity,
                 sendTrace>>

----------------------------------------------------------------------------
(* DataFormsTab *)

on_cancel ==
    /\ err = "none"
    /\ cancelCalls + sendCalls < MaxCalls
    /\ cancelCalls' = cancelCalls + 1
    /\ lastOp' = "on_cancel"
    /\ UNCHANGED <<form, fields, inputs, current_input, err, sendCalls,
                   supplied, spaceParity, sendTrace>>

\* self._form.reply() belongs to the field-set library and touches no
\* attribute modelled here
on_send ==
    /\ err = "none"
    /\ cancelCalls + sendCalls < MaxCalls
    /\ LET r == FormWin_reply(inputs, fields, form)
       IN /\ fields' = r.fields
          /\ form' = r.form
          /\ err' = r.err
          /\ sendCalls' = IF r.err = "none" THEN sendCalls + 1 ELSE sendCalls
          /\ sendTrace' = IF r.err = "none"
                          THEN r.calls \o <<Call("_on_send", -1)>>
                          ELSE r.calls
    /\ lastOp' = "on_send"
    /\ UNCHANGED <<inputs, current_input, cancelCalls, supplied, spaceParity>>

IsTextInput(w) == w.cls \in {"TextSingleWin", "TextPrivateWin"}

EditKeys == {"KEY_LEFT", "KEY_RIGHT", "KEY_BACKSPACE"}

FormWin_on_input(key) ==
    /\ err = "none"
    /\ IF Len(inputs) = 0
       THEN UNCHANGED <<inputs, err, spaceParity>>
       ELSE LET w == inputs[current_input + 1].input
                r == do_command(w, key)
            IN \* the text buffer of the model holds at most MaxText tokens
               /\ (IsTextInput(w) /\ key \notin EditKeys) => Len(w.text) < MaxText
               /\ inputs' = [inputs EXCEPT ![current_input + 1].input = r.w]
               /\ err' = r.err
               /\ spaceParity' =
                    IF key = " " /\ w.cls = "ListMultiWin" /\ w.val_pos < Len(w.options)
                    THEN [spaceParity EXCEPT ![current_input + 1][w.val_pos + 1] =
                              ~spaceParity[current_input + 1][w.val_pos + 1]]
                    ELSE spaceParity
    /\ lastOp' = "FormWin_on_input"
    /\ UNCHANGED <<form, fields, current_input, cancelCalls, sendCalls, supplied,
                 sendTrace>>

key_func == {"KEY_UP", "KEY_DOWN", "^G", "^Y"}

Keys == key_func \cup EditKeys \cup {" "}

on_input(key) ==
    \/ key = "KEY_UP" /\ go_to_previous_input
    \/ key = "KEY_DOWN" /\ go_to_next_input
    \/ key = "^G" /\ on_cancel
    \/ key = "^Y" /\ on_send
    \/ key \notin key_func /\ FormWin_on_input(key)

\* FormWin.refresh, as DataFormsTab.refresh calls it
RECURSIVE AnyRefreshRaises(_, _)
AnyRefreshRaises(inp, i) ==
    IF i >= Len(inp) THEN FALSE
    ELSE refresh_raises(inp[i + 1].input) \/ AnyRefreshRaises(inp, i + 1)

FormWin_refresh(inp, cur) ==
    IF AnyRefreshRaises(inp, 0) THEN [inputs |-> inp, err |-> "IndexError"]
    ELSE IF cur >= Len(inp) THEN [inputs |-> inp, err |-> "IndexError"]
    ELSE [inputs |-> set_color(inp, cur, FOCUSED), err |-> "none"]

refresh ==
    /\ err = "none"
    /\ LET r == FormWin_refresh(inputs, current_input)
       IN /\ inputs' = r.inputs
          /\ err' = r.err
    /\ lastOp' = "refresh"
    /\ UNCHANGED <<form, fields, current_input, cancelCalls, sendCalls,
                   supplied, spaceParity, sendTrace>>

Next ==
    \/ \E key \in Keys : on_input(key)
    \/ refresh

----------------------------------------------------------------------------
(* Specifications *)

\* well-formed fields of every type, recognized or not
FieldChoices ==
    { Field("hidden", Hello, <<>>),
      Field("fixed", Hello, <<>>),
      Field("boolean", PyBool(TRUE), <<>>),
      Field("text-single", Hello, <<>>),
      Field("text-private", PyNone, <<>>),
      Field("jid-single", PyNone, <<>>),
      Field("custom-x", PyNone, <<>>),
      Field("custom-x", Hello, <<>>),
      Field("list-single", B, <<Option(A), Option(B)>>),
      Field("list-multi", PyList(<<B>>), <<Option(A), Option(B)>>) }

\* the fields of the form of three kinds: never shown, inert, focusable
CoreChoices ==
    { Field("hidden", Hello, <<>>),
      Field("fixed", Hello, <<>>),
      Field("text-single", Hello, <<>>) }

Init ==
    \E flds \in SeqsUpTo(CoreChoices, 0, MaxFields)
                  \cup SeqsUpTo(FieldChoices, 0, MaxMixed) : InitWith(flds)

Spec == Init /\ [][Next]_vars

\* navigation over lists of focusable and inert widgets
NavChoices ==
    { Field("fixed", Hello, <<>>),
      Field("boolean", PyNone, <<>>) }

InitNav == \E flds \in SeqsUpTo(NavChoices, 1, MaxNavFields) : InitWith(flds)

SpecNav == InitNav /\ [][Next]_vars

\* one list field with one to MaxOptions options
\* A, B, C, A, B, ...: option values repeat from the fourth option on
CycleOption(k) == Option(IF k % 3 = 1 THEN A ELSE IF k % 3 = 2 THEN B ELSE C)

\* lists of 1..MaxOptions options, and some with another order or with the
\* same value twice
OptionLists ==
    {[k \in 1..n |-> CycleOption(k)] : n \in 1..MaxOptions}
    \cup {<<Option(B), Option(A)>>, <<Option(A), Option(A)>>,
          <<Option(C), Option(B), Option(A)>>, <<Option(A), Option(B), Option(A)>>}

ListChoices ==
    { Field("list-single", v, o) : v \in {PyNone, A, B, C, Z}, o \in OptionLists }
    \cup
    { Field("list-multi", PyList(v), o) :
        v \in {<<>>, <<A>>, <<C, A>>, <<B, Z>>}, o \in OptionLists }

InitList == \E fld \in ListChoices : InitWith(<<fld>>)

SpecList == InitList /\ [][Next]_vars

----------------------------------------------------------------------------
(* Properties *)

Focus == inputs[current_input + 1].input

AllInert == \A i \in 1..Len(inputs) : is_dummy(inputs[i].input)

NavOps == {"go_to_next_input", "go_to_previous_input"}

\* C1: whenever the widget list is non-empty, current_input points at a
\* widget that is not a dummy, unless every widget is a dummy; the state
\* right after construction included.
C1_FocusNeverInert ==
    Len(inputs) > 0 =>
        /\ current_input \in 0..(Len(inputs) - 1)
        /\ is_dummy(Focus) => AllInert

\* C2: a go_to_next_input call leaves current_input on a dummy only if every
\* widget from the position held before the call to the end of the list is
\* a dummy; an aborted move leaves current_input where it was.
C2_AdvanceNeverLandsInert ==
    [][(lastOp' = "go_to_next_input" /\ err' = "none" /\ Len(inputs) > 0
        /\ is_dummy(inputs'[current_input' + 1].input))
       => /\ \A i \in current_input..(Len(inputs) - 1) : is_dummy(inputs[i + 1].input)
          /\ current_input' = current_input]_vars

\* C3: from every reachable current_input i whose widget is not a dummy,
\* go_to_next_input followed at once by go_to_previous_input ends with
\* current_input = i.
C3_AdvanceRetreatRoundTrip ==
    (Len(inputs) > 0 /\ err = "none" /\ ~is_dummy(Focus)) =>
        LET a == NextInput(inputs, current_input)
            r == PreviousInput(a.inputs, a.cur)
        IN a.err = "none" /\ r.err = "none" /\ r.cur = current_input

\* C4: on a non-empty widget list no go_to_next_input or
\* go_to_previous_input call raises, and current_input stays an index of
\* the list.
C4_NavigationNeverRaises ==
    (Len(inputs) > 0 /\ lastOp \in NavOps) =>
        /\ err = "none"
        /\ current_input \in 0..(Len(inputs) - 1)

\* C5: over any sequence of key events the callbacks on_cancel and on_send
\* are invoked at most once in total.
C5_CallbackAtMostOnce == cancelCalls + sendCalls <= 1

\* C6: the field set handed to the cancel callback, when no submit came
\* before, equals the field set supplied to the session: every field's
\* value, label and options, and the form's title and instructions.
C6_CancelLeavesFieldsAsSupplied ==
    (lastOp = "on_cancel" /\ sendCalls = 0) =>
        /\ fields = supplied
        /\ form = FormTop

\* the input built for field f, if any
InputsOf(f) == {i \in 1..Len(inputs) : inputs[i].input.field = f}

\* the answer a widget holds, read off its edit state
IsSelected(o) == o.selected
AnswerOf(w) ==
    CASE w.cls = "BooleanWin" -> PyBool(w.value)
      [] w.cls = "ListMultiWin" ->
            LET sel == SelectSeq(w.options, IsSelected)
            IN PyList([k \in 1..Len(sel) |-> sel[k].option.value])
      [] w.cls = "ListSingleWin" -> w.options[w.val_pos + 1].value
      [] OTHER -> PyStr(w.text)

Submitted == lastOp = "on_send" /\ err = "none"

\* C7: the inputs are the non-hidden fields, one each and in field order;
\* hidden and fixed fields keep the value, label and options they were
\* supplied with; right after a submit every field of a widget that is not
\* a dummy has an empty label and the widget's answer as its value, the
\* text of a text widget as it stands (the seeded text when unedited).
C7_SubmitRepliesNonInertOnly ==
    /\ \A i \in 1..Len(inputs) : fields[inputs[i].input.field].type # "hidden"
    /\ \A i, j \in 1..Len(inputs) :
          i < j => inputs[i].input.field < inputs[j].input.field
    /\ \A f \in 1..Len(fields) :
          /\ fields[f].type # "hidden" => Cardinality(InputsOf(f)) = 1
          /\ fields[f].type \in {"hidden", "fixed"} => fields[f] = supplied[f]
    /\ \A i \in 1..Len(inputs) :
          is_dummy(inputs[i].input) <=> fields[inputs[i].input.field].type = "fixed"
    /\ Submitted =>
          \A i \in 1..Len(inputs) :
             LET w == inputs[i].input
             IN ~is_dummy(w) =>
                  /\ fields[w.field].label = Empty
                  /\ fields[w.field].value = AnswerOf(w)

\* hidden, fixed and text-single("hello") submitted unedited: only the text
\* field was answered, with "hello"
C7_Witness ==
    /\ Submitted
    /\ Len(supplied) = 3
    /\ supplied[1].type = "hidden" /\ supplied[2].type = "fixed"
    /\ supplied[3].type = "text-single" /\ supplied[3].value = Hello
    /\ Len(inputs) = 2
    /\ inputs[2].input.text = <<"hello">>
    /\ fields[3].value = Hello /\ fields[3].label = Empty
    /\ fields[1] = supplied[1] /\ fields[2] = supplied[2]

\* C8: the selected flag of every option of a list-multi widget is its seed
\* (the option's value is in the value the field had at construction)
\* flipped once per ' ' key received with the cursor on it; right after a
\* submit the field's value is the list of the values of the selected
\* options, in the order of the field's option list, and the field has no
\* options left.
C8_ListMultiReply ==
    \A i \in 1..Len(inputs) :
       LET w == inputs[i].input
       IN w.cls = "ListMultiWin" =>
            /\ Len(w.options) = Len(supplied[w.field].options)
            /\ \A k \in 1..Len(w.options) :
                  /\ w.options[k].option = supplied[w.field].options[k]
                  /\ w.options[k].selected =
                       (PyIn(w.options[k].option.value, supplied[w.field].value)
                        # spaceParity[i][k])
            /\ Submitted =>
                  /\ fields[w.field].value = AnswerOf(w)
                  /\ fields[w.field].options = <<>>

\* options A, B, C, nothing selected at first, ' ' on A and on C: answer [A, C]
C8_Witness ==
    /\ Submitted
    /\ Len(inputs) = 1
    /\ inputs[1].input.cls = "ListMultiWin"
    /\ supplied[1].options = <<Option(A), Option(B), Option(C)>>
    /\ supplied[1].value = PyList(<<>>)
    /\ spaceParity[1] = <<TRUE, FALSE, TRUE>>
    /\ fields[1].value = PyList(<<A, C>>)
    /\ fields[1].options = <<>>

\* the value of the field is the value of one of its options
ValuePresent(fld) == \E k \in 1..Len(fld.options) : fld.options[k].value = fld.value

C9_State ==
    \A i \in 1..Len(inputs) :
       LET w == inputs[i].input
       IN w.cls = "ListSingleWin" =>
            /\ w.options = supplied[w.field].options
            /\ lastOp = "init" =>
                  IF ValuePresent(supplied[w.field])
                  THEN /\ w.val_pos \in 0..(Len(w.options) - 1)
                       /\ w.options[w.val_pos + 1].value = supplied[w.field].value
                  ELSE w.val_pos = 0
            /\ Submitted =>
                  /\ fields[w.field].value = w.options[w.val_pos + 1].value
                  /\ fields[w.field].options = <<>>

\* a submit as the first key of the session
C9_NoKeys ==
    (lastOp = "init" /\ lastOp' = "on_send") =>
        \A f \in 1..Len(supplied) :
           (supplied[f].type = "list-single" /\ ValuePresent(supplied[f]))
              => fields'[f].value = supplied[f].value

\* C9: the cursor of a list-single widget starts on an option whose value is
\* the field's value (at 0 if there is none); right after a submit the
\* field's value is the value of the option under the cursor and the field
\* has no options left; a submit with no key pressed before answers with
\* the value the field had, when that value is among the options.
C9_ListSingleReply == []C9_State /\ [][C9_NoKeys]_vars

\* options A, B, C, value A, cursor moved to index 2: answer C
C9_Witness ==
    /\ Submitted
    /\ Len(inputs) = 1
    /\ inputs[1].input.cls = "ListSingleWin"
    /\ supplied[1].options = <<Option(A), Option(B), Option(C)>>
    /\ supplied[1].value = A
    /\ inputs[1].input.val_pos = 2
    /\ fields[1].value = C
    /\ fields[1].options = <<>>

\* C10: every field of an unrecognized type that is not hidden has a
\* TextSingleWin widget, which is not a dummy; its text right after
\* construction is the type name, and a submit that finds the text still
\* the type name sets the field's value to the type name.
C10_UnknownTypeFallsBackToText ==
    \A f \in 1..Len(fields) :
       (fields[f].type \notin RecognizedTypes \cup {"hidden"}) =>
          \E i \in 1..Len(inputs) :
             LET w == inputs[i].input
             IN /\ w.field = f
                /\ w.cls = "TextSingleWin"
                /\ ~is_dummy(w)
                /\ lastOp = "init" => w.text = <<fields[f].type>>
                /\ (Submitted /\ w.text = <<fields[f].type>>)
                     => fields[f].value = PyStr(<<fields[f].type>>)

\* a "custom-x" field supplied without a value, submitted unedited
C10_Witness ==
    /\ Submitted
    /\ Len(supplied) = 1
    /\ supplied[1].type = "custom-x" /\ supplied[1].value = PyNone
    /\ inputs[1].input.text = <<"custom-x">>
    /\ fields[1].value = PyStr(<<"custom-x">>)

\* C11: with an empty widget list (no field, or hidden fields only)
\* go_to_next_input, go_to_previous_input and every edit key change nothing
\* and raise nothing; a submit changes no field, clears the form's title and
\* instructions and calls the send callback once.
C11_EmptyWidgetList ==
    [][Len(inputs) = 0 =>
        /\ lastOp' \in NavOps \cup {"FormWin_on_input"} =>
              /\ err' = "none"
              /\ UNCHANGED <<form, fields, inputs, current_input,
                             cancelCalls, sendCalls>>
        /\ lastOp' = "on_send" =>
              /\ err' = "none"
              /\ fields' = fields
              /\ inputs' = inputs
              /\ form' = [title |-> Empty, instructions |-> Empty]
              /\ sendCalls' = sendCalls + 1
              /\ cancelCalls' = cancelCalls]_vars

\* a form of hidden fields only, submitted once after an edit key
C11_Witness ==
    /\ Len(inputs) = 0
    /\ Len(fields) > 0
    /\ lastOp = "on_send"
    /\ err = "none"
    /\ sendCalls = 1
    /\ fields = supplied
    /\ form = [title |-> Empty, instructions |-> Empty]

----------------------------------------------------------------------------
(* Forms with list fields that carry no option *)

\* list-single and list-multi fields whose getOptions() is empty, next to a
\* boolean field
MalformedChoices ==
    { Field("list-single", PyNone, <<>>),
      Field("list-single", A, <<>>),
      Field("list-multi", PyList(<<>>), <<>>),
      Field("list-multi", PyList(<<A>>), <<>>),
      Field("boolean", PyBool(TRUE), <<>>) }

InitMalformed ==
    \E flds \in SeqsUpTo(MalformedChoices, 1, MaxMixed) : InitWith(flds)

SpecMalformed == InitMalformed /\ [][Next]_vars

NoOptionList(w) ==
    w.cls \in {"ListMultiWin", "ListSingleWin"} /\ Len(w.options) = 0

\* C12: a list-single or list-multi field without options gets a widget with
\* an empty option list; no key delivered to that widget raises an error or
\* moves its cursor, and a submit completes without an error.
C12_NoOptionListIsGraceful ==
    /\ \A i \in 1..Len(inputs) :
          inputs[i].input.cls \in {"ListMultiWin", "ListSingleWin"}
              => inputs[i].input.options = <<>> /\ inputs[i].input.val_pos = 0
    /\ (/\ lastOp = "FormWin_on_input"
        /\ Len(inputs) > 0
        /\ current_input < Len(inputs)
        /\ NoOptionList(Focus)) => err = "none"
    /\ lastOp = "on_send" => err = "none"

----------------------------------------------------------------------------
(* Navigation to the nearest non-dummy input *)

NonInertBelow(cur) ==
    {i \in 0..(cur - 1) : ~is_dummy(inputs[i + 1].input)}

NonInertAbove(cur) ==
    {i \in (cur + 1)..(Len(inputs) - 1) : ~is_dummy(inputs[i + 1].input)}

Largest(S) == CHOOSE i \in S : \A j \in S : j <= i

Smallest(S) == CHOOSE i \in S : \A j \in S : i <= j

\* C13: go_to_previous_input changes nothing at current_input = 0; when some
\* non-dummy input lies below current_input it moves current_input to the
\* largest such index, whatever the length of the run of dummies between.
C13_RetreatToNearestNonInert ==
    [][(lastOp' = "go_to_previous_input" /\ Len(inputs) > 0) =>
        /\ current_input = 0 =>
              err' = "none" /\ UNCHANGED <<inputs, current_input>>
        /\ (current_input > 0 /\ NonInertBelow(current_input) # {}) =>
              /\ err' = "none"
              /\ current_input' = Largest(NonInertBelow(current_input))]_vars

\* C14: go_to_next_input changes nothing at the last index; when some
\* non-dummy input lies above current_input it moves current_input to the
\* smallest such index.
C14_AdvanceToNearestNonInert ==
    [][(lastOp' = "go_to_next_input" /\ Len(inputs) > 0) =>
        /\ current_input = Len(inputs) - 1 =>
              err' = "none" /\ UNCHANGED <<inputs, current_input>>
        /\ (current_input < Len(inputs) - 1
            /\ NonInertAbove(current_input) # {}) =>
              /\ err' = "none"
              /\ current_input' = Smallest(NonInertAbove(current_input))]_vars

\* go_to_next_input has moved the focus over a run of two dummies
C14_Witness ==
    /\ lastOp = "go_to_next_input"
    /\ err = "none"
    /\ Len(inputs) = 4
    /\ current_input = 3
    /\ ~is_dummy(inputs[1].input)
    /\ is_dummy(inputs[2].input)
    /\ is_dummy(inputs[3].input)
    /\ ~is_dummy(inputs[4].input)
    /\ inputs[4].input.color = FOCUSED

----------------------------------------------------------------------------
(* Order of the steps of a submit *)

RECURSIVE RepliesInListOrder(_)
\* the reply() calls of the non-dummy inputs of index i and above, by
\* increasing index
RepliesInListOrder(i) ==
    IF i >= Len(inputs) THEN <<>>
    ELSE IF is_dummy(inputs[i + 1].input) THEN RepliesInListOrder(i + 1)
    ELSE <<Call("reply", i)>> \o RepliesInListOrder(i + 1)

\* C15: a submit calls reply() on every non-dummy input in list order, then
\* clears the title and the instructions, then calls the send callback; when
\* the callback is called the field of every non-dummy input holds the
\* input's answer with an empty label and the form's title and instructions
\* are empty.
C15_SubmitOrder ==
    Submitted =>
       /\ sendTrace = RepliesInListOrder(0)
                        \o <<Call("title", -1), Call("instructions", -1),
                             Call("_on_send", -1)>>
       /\ form.title = Empty
       /\ form.instructions = Empty
       /\ \A i \in 1..Len(inputs) :
             LET w == inputs[i].input
             IN ~is_dummy(w) =>
                  /\ fields[w.field].label = Empty
                  /\ fields[w.field].value = AnswerOf(w)

\* a submit of a form whose fixed field lies between two answered fields
C15_Witness ==
    /\ Submitted
    /\ Len(inputs) = 3
    /\ ~is_dummy(inputs[1].input)
    /\ is_dummy(inputs[2].input)
    /\ ~is_dummy(inputs[3].input)
    /\ sendTrace = <<Call("reply", 0), Call("reply", 2), Call("title", -1),
                     Call("instructions", -1), Call("_on_send", -1)>>
    /\ fields[inputs[3].input.field].label = Empty

----------------------------------------------------------------------------
(* Colours after a move of the focus *)

\* C16: every go_to_next_input or go_to_previous_input that changes
\* current_input leaves the input at the old index with colour 14 and the
\* input at the new index with colour 13.
C16_NavigationColours ==
    [][(/\ lastOp' \in NavOps
        /\ err' = "none"
        /\ current_input' # current_input) =>
           /\ inputs'[current_input + 1].input.color = UNFOCUSED
           /\ inputs'[current_input' + 1].input.color = FOCUSED]_vars

----------------------------------------------------------------------------
(* The cursor of the list widgets *)

IsListInput(w) == w.cls \in {"ListMultiWin", "ListSingleWin"}

\* val_pos after key, as the claim states it
CursorAfter(w, key) ==
    IF key = "KEY_LEFT"
    THEN IF w.val_pos = 0 THEN 0 ELSE w.val_pos - 1
    ELSE IF key = "KEY_RIGHT"
    THEN IF w.val_pos = Len(w.options) - 1 THEN w.val_pos ELSE w.val_pos + 1
    ELSE w.val_pos

C17_State ==
    \A i \in 1..Len(inputs) :
       LET w == inputs[i].input
       IN (IsListInput(w) /\ Len(w.options) > 0) =>
             /\ w.val_pos \in 0..(Len(w.options) - 1)
             /\ \A key \in Keys \ key_func :
                   do_command(w, key).w.val_pos = CursorAfter(w, key)

C17_Step ==
    \A i \in 1..Len(inputs) :
       LET w == inputs[i].input
       IN (IsListInput(w) /\ Len(w.options) > 0) =>
             /\ inputs'[i].input.val_pos - w.val_pos \in {-1, 0, 1}
             /\ lastOp' # "FormWin_on_input" =>
                   inputs'[i].input.val_pos = w.val_pos

\* C17: the cursor of a list-single or list-multi widget with options stays
\* within 0..len(options)-1; KEY_LEFT at 0 and KEY_RIGHT at the last option
\* leave it unchanged, elsewhere they move it by one; every other key and
\* every other handler leave it unchanged.
C17_ListCursor == []C17_State /\ [][C17_Step]_vars

\* the cursor of a list-single widget that started on the first of three
\* options was moved to the last one
C17_Witness ==
    /\ lastOp = "FormWin_on_input"
    /\ err = "none"
    /\ Len(inputs) = 1
    /\ inputs[1].input.cls = "ListSingleWin"
    /\ Len(inputs[1].input.options) = 3
    /\ supplied[1].value = inputs[1].input.options[1].value
    /\ supplied[1].value # inputs[1].input.options[3].value
    /\ inputs[1].input.val_pos = 2

----------------------------------------------------------------------------
(* Keys on a dummy input *)

\* C18: a key that is neither a navigation key nor submit or cancel, sent
\* while current_input is on a DummyInput, raises no error and changes no
\* state.
C18_KeyOnDummyIsNoOp ==
    [][(/\ lastOp' = "FormWin_on_input"
        /\ Len(inputs) > 0
        /\ is_dummy(Focus)) =>
           /\ err' = "none"
           /\ UNCHANGED <<form, fields, inputs, current_input>>]_vars

----------------------------------------------------------------------------
(* The render pass *)

\* an input without its colour
EditState(w) == [w EXCEPT !.color = 0]

\* C19: in every reachable state a render pass raises no error, changes
\* neither current_input nor the edit state of any input nor any field, and
\* a second render pass right after it changes nothing, colours included.
C19_RenderIdempotent ==
    [][lastOp' = "refresh" =>
        /\ err' = "none"
        /\ UNCHANGED <<form, fields, current_input>>
        /\ Len(inputs') = Len(inputs)
        /\ \A i \in 1..Len(inputs) :
              EditState(inputs'[i].input) = EditState(inputs[i].input)
        /\ FormWin_refresh(inputs', current_input') =
              [inputs |-> inputs', err |-> "none"]]_vars

\* C20: at most one input has colour 13, and an input that has it is the
\* one at current_input.
C20_SingleFocusedColour ==
    \A i \in 1..Len(inputs) :
       inputs[i].input.color = FOCUSED => i = current_input + 1

\* the focus was moved off the first input and the input it moved to is the
\* only one with colour 13
C20_Witness ==
    /\ lastOp \in NavOps
    /\ err = "none"
    /\ Len(inputs) >= 3
    /\ current_input = 2
    /\ inputs[3].input.color = FOCUSED
    /\ \A i \in 1..Len(inputs) : i # 3 => inputs[i].input.color = UNFOCUSED

=============================================================================
